---- MODULE Spec2Model ----
(***************************************************************************)
(* ADGM compliance review (src/code.py): keyword classification of         *)
(* uploaded .docx files, brace-counting JSON extraction from the           *)
(* reviewer's answer, inline annotation of the document, the checklist     *)
(* gap and the Streamlit run handler that stores the results.              *)
(*                                                                         *)
(* Python strings are TLA+ strings (Len, \o and SubSeq act on them).       *)
(* JSON values are tagged records:                                         *)
(*   [t |-> "null"], [t |-> "bool", s], [t |-> "num", s], [t |-> "str", s],*)
(*   [t |-> "list", v |-> <<values>>],                                     *)
(*   [t |-> "obj",  v |-> <<[k |-> key, v |-> value], ...>>]               *)
(***************************************************************************)
EXTENDS Integers, Sequences, FiniteSets, TLC

VARIABLES
    pc,              \* position of the Streamlit script / run handler
    pdf_files,       \* number of reference PDFs in the first uploader
    docx_files,      \* the uploaded candidate documents, in upload order
    results,         \* st.session_state.results
    k,               \* index of the document the batch loop works on
    detected_types,  \* locals of the run handler
    all_issues,
    reviewed_files,
    review_json,     \* run_rag_review's return value for document k
    doc,             \* annotate_docx_inline: paragraphs of the opened Document
    j,               \* annotate_docx_inline: index of the issue being placed
    resps,           \* what the reviewer answered for documents 1..k of this run
    error,           \* the exception that ended the last run, or "none"
    text,            \* argument of the function under test
    out,             \* its return value
    fpc              \* "call" before the function ran, "returned" after

vars == <<pc, pdf_files, docx_files, results, k, detected_types, all_issues,
          reviewed_files, review_json, doc, j, resps, error, text, out, fpc>>

runVars == <<pc, pdf_files, docx_files, results, k, detected_types, all_issues,
             reviewed_files, review_json, doc, j, resps, error>>

funVars == <<text, out, fpc>>

(***************************************************************************)
(* Python values                                                           *)
(***************************************************************************)
None == [t |-> "null"]

PyStr(s) == [t |-> "str", s |-> s]

PyNum(s) == [t |-> "num", s |-> s]

PyBool(s) == [t |-> "bool", s |-> s]

PyList(v) == [t |-> "list", v |-> v]

PyDict(v) == [t |-> "obj", v |-> v]

EmptyDict == PyDict(<<>>)

\* text[i] as a one-character string; "" past the end
Ch(s, i) == IF i >= 1 /\ i <= Len(s) THEN SubSeq(s, i, i) ELSE ""

\* text[a:b] with Python's clamping of the slice bounds (1-based, b inclusive)
Slice(s, a, b) == IF b > Len(s) THEN SubSeq(s, a, Len(s)) ELSE SubSeq(s, a, b)

UpperChars == "ABCDEFGHIJKLMNOPQRSTUVWXYZ"

LowerChars == "abcdefghijklmnopqrstuvwxyz"

\* each upper-case letter's lower-case letter
LowerOf ==
    [c \in {Ch(UpperChars, i) : i \in 1..Len(UpperChars)} |->
        Ch(LowerChars, CHOOSE i \in 1..Len(UpperChars) : Ch(UpperChars, i) = c)]

LowerChar(c) == IF c \in DOMAIN LowerOf THEN LowerOf[c] ELSE c

\* str.lower(): every character lower-cased, the string split in halves
RECURSIVE Lower(_)
Lower(s) ==
    IF Len(s) <= 1 THEN LowerChar(s)
    ELSE LET half == Len(s) \div 2
         IN  Lower(SubSeq(s, 1, half)) \o Lower(SubSeq(s, half + 1, Len(s)))

\* Python's  sub in s
Contains(s, sub) ==
    \E i \in 1..(Len(s) - Len(sub) + 1) : SubSeq(s, i, i + Len(sub) - 1) = sub

\* the first index from i on whose character is one of chars; Len(s) + 1
\* when there is none
FirstOf(s, i, chars) ==
    IF \E h \in i..Len(s) : Ch(s, h) \in chars
    THEN CHOOSE h \in i..Len(s) :
            Ch(s, h) \in chars /\ \A g \in i..(h - 1) : Ch(s, g) \notin chars
    ELSE Len(s) + 1

\* str.find(c) for a one-character c, 1-based; 0 stands for -1
Find(s, c) == IF FirstOf(s, 1, {c}) > Len(s) THEN 0 ELSE FirstOf(s, 1, {c})

\* dict.get(key): the value stored under key, or dflt
RECURSIVE GetFrom(_, _, _, _)
GetFrom(pairs, key, dflt, i) ==
    IF i = 0 THEN dflt
    ELSE IF pairs[i].k = key THEN pairs[i].v
    ELSE GetFrom(pairs, key, dflt, i - 1)

Get(d, key, dflt) == GetFrom(d.v, key, dflt, Len(d.v))

HasKey(d, key) == \E i \in 1..Len(d.v) : d.v[i].k = key

\* d[key] = val: a key already present keeps its place and takes the new value
Put(pairs, key, val) ==
    IF \E i \in 1..Len(pairs) : pairs[i].k = key
    THEN [i \in 1..Len(pairs) |->
             IF pairs[i].k = key THEN [k |-> key, v |-> val] ELSE pairs[i]]
    ELSE Append(pairs, [k |-> key, v |-> val])

(***************************************************************************)
(* json.loads on the characters the reviewer answers are made of:          *)
(* objects, arrays, strings with backslash escapes, integers, and the      *)
(* literals null, true, false.                                             *)
(***************************************************************************)
Fail == [ok |-> FALSE, val |-> None, pos |-> 0]

Ok(val, pos) == [ok |-> TRUE, val |-> val, pos |-> pos]

IsWs(c) == c \in {" ", "\n", "\t", "\r"}

Digits == {"0", "1", "2", "3", "4", "5", "6", "7", "8", "9"}

RECURSIVE SkipWs(_, _)
SkipWs(s, i) == IF IsWs(Ch(s, i)) THEN SkipWs(s, i + 1) ELSE i

\* the characters of a string literal from i on (after the opening quote);
\* a run of plain characters is taken in one step
RECURSIVE ParseString(_, _, _)
ParseString(s, i, acc) ==
    LET c == Ch(s, i)
        n == FirstOf(s, i, {"\"", "\\", "\n", "\t", "\r"})
    IN
    IF n > i THEN ParseString(s, n, acc \o SubSeq(s, i, n - 1))
    ELSE IF c = "" \/ c \in {"\n", "\t", "\r"} THEN Fail
    ELSE IF c = "\"" THEN Ok(PyStr(acc), i + 1)
    ELSE IF c = "\\" THEN
        LET e == Ch(s, i + 1) IN
        IF e \in {"\"", "\\", "/"} THEN ParseString(s, i + 2, acc \o e)
        ELSE IF e = "n" THEN ParseString(s, i + 2, acc \o "\n")
        ELSE IF e = "t" THEN ParseString(s, i + 2, acc \o "\t")
        ELSE IF e = "r" THEN ParseString(s, i + 2, acc \o "\r")
        ELSE Fail
    ELSE Fail

RECURSIVE DigitsEnd(_, _)
DigitsEnd(s, i) == IF Ch(s, i) \in Digits THEN DigitsEnd(s, i + 1) ELSE i

\* -?(0|[1-9][0-9]*)
ParseNumber(s, i) ==
    LET d == IF Ch(s, i) = "-" THEN i + 1 ELSE i
        e == IF Ch(s, d) = "0" THEN d + 1 ELSE DigitsEnd(s, d)
    IN  IF e = d THEN Fail ELSE Ok(PyNum(SubSeq(s, i, e - 1)), e)

StartsWith(s, i, word) ==
    /\ i + Len(word) - 1 <= Len(s)
    /\ SubSeq(s, i, i + Len(word) - 1) = word

RECURSIVE ParseValue(_, _)
RECURSIVE ParseMembers(_, _, _)
RECURSIVE ParseElements(_, _, _)

\* one "key": value pair at i, then "," and the next pair, or "}"
ParseMembers(s, i, acc) ==
    IF Ch(s, i) # "\"" THEN Fail
    ELSE LET key == ParseString(s, i + 1, "") IN
         IF ~key.ok THEN Fail
         ELSE LET c == SkipWs(s, key.pos) IN
              IF Ch(s, c) # ":" THEN Fail
              ELSE LET val == ParseValue(s, SkipWs(s, c + 1)) IN
                   IF ~val.ok THEN Fail
                   ELSE LET e == SkipWs(s, val.pos)
                            got == Put(acc, key.val.s, val.val)
                        IN  IF Ch(s, e) = "}" THEN Ok(PyDict(got), e + 1)
                            ELSE IF Ch(s, e) = ","
                            THEN ParseMembers(s, SkipWs(s, e + 1), got)
                            ELSE Fail

\* one array element at i, then "," and the next element, or "]"
ParseElements(s, i, acc) ==
    LET val == ParseValue(s, i) IN
    IF ~val.ok THEN Fail
    ELSE LET e == SkipWs(s, val.pos)
             got == Append(acc, val.val)
         IN  IF Ch(s, e) = "]" THEN Ok(PyList(got), e + 1)
             ELSE IF Ch(s, e) = "," THEN ParseElements(s, SkipWs(s, e + 1), got)
             ELSE Fail

ParseValue(s, i) ==
    LET c == Ch(s, i) IN
    IF c = "\"" THEN ParseString(s, i + 1, "")
    ELSE IF c = "{" THEN
        LET m == SkipWs(s, i + 1) IN
        IF Ch(s, m) = "}" THEN Ok(EmptyDict, m + 1) ELSE ParseMembers(s, m, <<>>)
    ELSE IF c = "[" THEN
        LET m == SkipWs(s, i + 1) IN
        IF Ch(s, m) = "]" THEN Ok(PyList(<<>>), m + 1) ELSE ParseElements(s, m, <<>>)
    ELSE IF StartsWith(s, i, "null") THEN Ok(None, i + Len("null"))
    ELSE IF StartsWith(s, i, "true") THEN Ok(PyBool("true"), i + Len("true"))
    ELSE IF StartsWith(s, i, "false") THEN Ok(PyBool("false"), i + Len("false"))
    ELSE ParseNumber(s, i)

\* json.loads(s): the value, or a failure when s is not exactly one JSON value
json_loads(s) ==
    LET r == ParseValue(s, SkipWs(s, 1)) IN
    IF r.ok /\ SkipWs(s, r.pos) = Len(s) + 1 THEN r ELSE Fail

(***************************************************************************)
(* _extract_json_from_text                                                 *)
(***************************************************************************)
\* a scanner that takes the span up to the last "}" of the text instead
BalancedEndGreedy(s, i, depth) ==
    IF \E h \in i..Len(s) : Ch(s, h) = "}"
    THEN CHOOSE h \in i..Len(s) :
            Ch(s, h) = "}" /\ \A g \in (h + 1)..Len(s) : Ch(s, g) # "}"
    ELSE 0

\* the loop of lines 78-86 from index i on, depth being the counter before
\* text[i]; characters other than braces leave depth alone and are passed
\* over in one step.  The result is the index where depth returns to 0, or
\* 0 when the loop runs off the end of the text
RECURSIVE BalancedEnd(_, _, _)
BalancedEnd(s, i, depth) ==
    LET b == FirstOf(s, i, {"{", "}"}) IN
    IF b > Len(s) THEN 0
    ELSE IF Ch(s, b) = "{" THEN BalancedEnd(s, b + 1, depth + 1)
    ELSE IF depth - 1 = 0 THEN b
    ELSE BalancedEnd(s, b + 1, depth - 1)

_extract_json_from_text(s) ==
    LET start == Find(s, "{") IN
    IF start = 0 THEN EmptyDict
    ELSE LET end == BalancedEnd(s, start, 0) IN
         IF end = 0 THEN EmptyDict
         ELSE LET r == json_loads(SubSeq(s, start, end)) IN
              IF r.ok THEN r.val ELSE EmptyDict

(***************************************************************************)
(* Module constants, lines 20-36                                           *)
(***************************************************************************)
\* ADGM_CHECKLISTS["Company Incorporation"]
ADGM_CHECKLISTS ==
    << "Articles of Association",
       "Memorandum of Association",
       "Incorporation Application Form",
       "UBO Declaration Form",
       "Register of Members and Directors" >>

\* the items of the dict, in insertion order
DOC_TYPE_KEYWORDS ==
    << [label |-> "Articles of Association",
        keys  |-> <<"articles of association", "aoa", "articles">>],
       [label |-> "Memorandum of Association",
        keys  |-> <<"memorandum of association", "moa", "memorandum">>],
       [label |-> "Incorporation Application Form",
        keys  |-> <<"incorporation application">>],
       [label |-> "UBO Declaration Form",
        keys  |-> <<"ubo declaration">>],
       [label |-> "Register of Members and Directors",
        keys  |-> <<"register of members", "register of directors">>] >>

UnknownType == "Unknown Document Type"

Range(seq) == {seq[i] : i \in 1..Len(seq)}

(***************************************************************************)
(* Python's truth value, iteration and formatting of a value               *)
(***************************************************************************)
Truthy(v) ==
    CASE v.t = "null" -> FALSE
      [] v.t = "bool" -> v.s = "true"
      [] v.t = "num"  -> v.s \notin {"0", "-0"}
      [] v.t = "str"  -> v.s # ""
      [] OTHER        -> v.v # <<>>

Raise(kind) == [ok |-> FALSE, err |-> kind, val |-> None]

Return(val) == [ok |-> TRUE, err |-> "none", val |-> val]

\* what  for x in v  goes through: the elements of a list, the characters
\* of a string, the keys of a dict; anything else is not iterable
Iter(v) ==
    CASE v.t = "list" -> Return(v.v)
      [] v.t = "str"  -> Return([i \in 1..Len(v.s) |-> PyStr(Ch(v.s, i))])
      [] v.t = "obj"  -> Return([i \in 1..Len(v.v) |-> PyStr(v.v[i].k)])
      [] OTHER        -> Raise("TypeError")

RECURSIVE Repr(_)
RECURSIVE ReprItems(_, _, _)
\* repr(v), exact for strings without quotes, backslashes or control characters
Repr(v) ==
    CASE v.t = "null" -> "None"
      [] v.t = "bool" -> IF v.s = "true" THEN "True" ELSE "False"
      [] v.t = "num"  -> IF v.s = "-0" THEN "0" ELSE v.s
      [] v.t = "str"  -> "'" \o v.s \o "'"
      [] v.t = "list" -> "[" \o ReprItems(v.v, 1, FALSE) \o "]"
      [] OTHER        -> "{" \o ReprItems(v.v, 1, TRUE) \o "}"

ReprItems(items, i, keyed) ==
    IF i > Len(items) THEN ""
    ELSE (IF i > 1 THEN ", " ELSE "")
         \o (IF keyed THEN "'" \o items[i].k \o "': " \o Repr(items[i].v)
             ELSE Repr(items[i]))
         \o ReprItems(items, i + 1, keyed)

\* how an f-string renders {v}
Format(v) == IF v.t = "str" THEN v.s ELSE Repr(v)

(***************************************************************************)
(* extract_text_from_docx_bytes, lines 39-47                               *)
(* A .docx binary is [ok, paras, cells]: whether python-docx can open it,  *)
(* the body paragraphs' text, and the table cells' text in row-major order *)
(***************************************************************************)
RECURSIVE LStrip(_)
LStrip(s) == IF IsWs(Ch(s, 1)) THEN LStrip(SubSeq(s, 2, Len(s))) ELSE s

RECURSIVE RStrip(_)
RStrip(s) == IF IsWs(Ch(s, Len(s))) THEN RStrip(SubSeq(s, 1, Len(s) - 1)) ELSE s

\* str.strip()
Strip(s) == RStrip(LStrip(s))

RECURSIVE StrippedParts(_, _)
StrippedParts(texts, i) ==
    IF i > Len(texts) THEN <<>>
    ELSE IF Strip(texts[i]) # ""
    THEN <<Strip(texts[i])>> \o StrippedParts(texts, i + 1)
    ELSE StrippedParts(texts, i + 1)

RECURSIVE Join(_, _)
\* "\n".join(parts)
Join(parts, i) ==
    IF i > Len(parts) THEN ""
    ELSE IF i = Len(parts) THEN parts[i]
    ELSE parts[i] \o "\n" \o Join(parts, i + 1)

extract_text_from_docx_bytes(raw) ==
    Join(StrippedParts(raw.paras, 1) \o StrippedParts(raw.cells, 1), 1)

(***************************************************************************)
(* classify_document, lines 49-54                                          *)
(***************************************************************************)
\* any(k in text_l for k in keys)
AnyKey(text_l, keys) == \E n \in 1..Len(keys) : Contains(text_l, keys[n])

RECURSIVE ClassifyFrom(_, _)
ClassifyFrom(text_l, i) ==
    IF i > Len(DOC_TYPE_KEYWORDS) THEN UnknownType
    ELSE IF AnyKey(text_l, DOC_TYPE_KEYWORDS[i].keys) THEN DOC_TYPE_KEYWORDS[i].label
    ELSE ClassifyFrom(text_l, i + 1)

\* a classifier that forgets to lower-case the text
classify_document_CaseSensitive(t) ==
    ClassifyFrom(IF Truthy(t) THEN t.s ELSE "", 1)

\* the argument is a Python value: a string or None
classify_document(t) ==
    LET text_l == Lower(IF Truthy(t) THEN t.s ELSE "") IN ClassifyFrom(text_l, 1)

(***************************************************************************)
(* run_rag_review, lines 103-107: resp is what qa.run(prompt) returned     *)
(***************************************************************************)
\* a reviewer wrapper without the fallback of lines 105-106
run_rag_review_NoFallback(doc_name, resp) == _extract_json_from_text(resp)

run_rag_review(doc_name, resp) ==
    LET parsed == _extract_json_from_text(resp) IN
    IF ~Truthy(parsed)
    THEN PyDict(<<[k |-> "document", v |-> PyStr(doc_name)],
                  [k |-> "issues", v |-> PyList(<<>>)]>>)
    ELSE parsed

(***************************************************************************)
(* The list built at lines 161-167                                         *)
(***************************************************************************)
ReportIssue(doc_type, i) ==
    PyDict(<<[k |-> "document",   v |-> PyStr(doc_type)],
             [k |-> "section",    v |-> Get(i, "section", PyStr(""))],
             [k |-> "issue",      v |-> Get(i, "issue", PyStr(""))],
             [k |-> "severity",   v |-> Get(i, "severity", PyStr(""))],
             [k |-> "suggestion", v |-> Get(i, "suggestion", PyStr(""))]>>)

\* rows put in front of the issues collected so far
ExtendFront(issues, rows) == rows \o issues

\* all_issues.extend(rows), line 161
Extend(issues, rows) == issues \o rows

IssueRows(doc_type, rj) ==
    LET it == Iter(Get(rj, "issues", PyList(<<>>))) IN
    IF ~it.ok THEN Raise(it.err)
    ELSE IF \E n \in 1..Len(it.val) : it.val[n].t # "obj" THEN Raise("AttributeError")
    ELSE Return([n \in 1..Len(it.val) |-> ReportIssue(doc_type, it.val[n])])

(***************************************************************************)
(* annotate_docx_inline, lines 109-129                                     *)
(***************************************************************************)
SnippetLen == 50

\* a snippet without the [:50] cut
SnippetUncut(issue) ==
    LET got == Get(issue, "section", None)
        picked == IF Truthy(got) THEN got ELSE PyStr("")
    IN  IF picked.t # "str" THEN Raise("AttributeError")
        ELSE IF Lower(picked.s) # "" THEN Return(Lower(picked.s))
        ELSE LET v == Get(issue, "issue", PyStr("")) IN
             IF v.t = "str" THEN Return(Lower(v.s))
             ELSE IF v.t = "list" THEN Raise("AttributeError")
             ELSE Raise("TypeError")

\* lines 113-114
Snippet(issue) ==
    LET got == Get(issue, "section", None)
        picked == IF Truthy(got) THEN got ELSE PyStr("")
    IN  IF picked.t # "str" THEN Raise("AttributeError")
        ELSE IF Lower(picked.s) # "" THEN Return(Lower(picked.s))
        ELSE LET v == Get(issue, "issue", PyStr("")) IN
             IF v.t = "str" THEN Return(Lower(Slice(v.s, 1, SnippetLen)))
             ELSE IF v.t = "list" THEN Raise("AttributeError")
             ELSE Raise("TypeError")

\* line 115
Comment(issue) == "[Suggestion: " \o Format(Get(issue, "suggestion", PyStr(""))) \o "]"

\* a scan without the  snippet and  guard of line 118: "" is in every text
RECURSIVE ScanParasUnguarded(_, _, _)
ScanParasUnguarded(paras, snippet, p) ==
    IF p > Len(paras) THEN 0
    ELSE IF Contains(Lower(paras[p]), snippet) THEN p
    ELSE ScanParasUnguarded(paras, snippet, p + 1)

\* lines 117-122: the paragraph the loop breaks at, 0 when it runs to the end
RECURSIVE ScanParas(_, _, _)
ScanParas(paras, snippet, p) ==
    IF p > Len(paras) THEN 0
    ELSE IF snippet # "" /\ Contains(Lower(paras[p]), snippet) THEN p
    ELSE ScanParas(paras, snippet, p + 1)

\* lines 116-125 for one issue, on the paragraphs of the opened document
PlaceRemark(paras, snippet, comment) ==
    LET p == ScanParas(paras, snippet, 1) IN
    IF p # 0 THEN [paras EXCEPT ![p] = @ \o " " \o comment]
    ELSE Append(paras, comment)

\* the issues the loop of line 112 goes through
IssuesOf(rj) == Iter(Get(rj, "issues", PyList(<<>>)))

(***************************************************************************)
(* The checklist gap, lines 172 and 177                                    *)
(***************************************************************************)
RECURSIVE MissingFrom(_, _, _)
\* [d for d in required_docs if d not in detected_types]
MissingFrom(required, detected, i) ==
    IF i > Len(required) THEN <<>>
    ELSE IF required[i] \notin Range(detected)
    THEN <<required[i]>> \o MissingFrom(required, detected, i + 1)
    ELSE MissingFrom(required, detected, i + 1)

\* a gap check that counts the uploads instead of looking for each type
missing_document_ByCount(required, detected) ==
    LET missing == MissingFrom(required, detected, 1) IN
    IF missing # <<>> /\ Len(detected) < Len(required) THEN PyStr(missing[1]) ELSE None

missing_document(required, detected) ==
    LET missing == MissingFrom(required, detected, 1) IN
    IF missing # <<>> THEN PyStr(missing[1]) ELSE None

(***************************************************************************)
(* Inputs of a run: the files a user can upload and the answers the        *)
(* reviewer can give                                                       *)
(***************************************************************************)
MaxDocs == 2

MaxPdfs == 1

Docx(name, ok, paras, cells) ==
    [name |-> name, ok |-> ok, paras |-> paras, cells |-> cells]

AoaDoc ==
    Docx("aoa.docx", TRUE,
         <<"Articles of Association", "Section 1: Capital", "Section 2: Directors">>,
         <<>>)

MoaDoc ==
    Docx("moa.docx", TRUE,
         <<" MEMORANDUM ", "",
           "The company shall have a share capital as set out in clause 4.">>,
         <<>>)

UboDoc == Docx("ubo.docx", TRUE, <<"Declaration">>, <<"UBO Declaration Form", " ">>)

BadDoc == Docx("bad.docx", FALSE, <<>>, <<>>)

Docs == {AoaDoc, MoaDoc, UboDoc, BadDoc}

Responses ==
    { "No issues found.",
      "{\"document\":\"X\"}",
      "{\"issues\":null}",
      "{\"issues\":\"none\"}",
      "{\"issues\":[\"x\"]}",
      "{\"issues\":[{\"section\":null,\"issue\":null}]}",
      "Review: {\"document\": \"AoA\", \"issues\": [{\"section\": \"Directors\", \"issue\": \"No signature\", \"severity\": \"High\", \"suggestion\": \"Add signature\"}]} End.",
      "{\"issues\":[{\"section\":\"Capital\",\"suggestion\":\"See Directors\"},{\"section\":\"Directors\",\"suggestion\":\"Sign\"}]}",
      "{\"issues\":[{\"issue\":\"The company shall have a share capital as set out in the schedule.\",\"suggestion\":\"Fix\"},{\"section\":\"\",\"suggestion\":null},{\"section\":\"Quorum\",\"issue\":\"No quorum\"}]}" }

(***************************************************************************)
(* The Streamlit script, lines 135-202.  pc is "upload" while the two      *)
(* uploaders and the Run Review button are shown, "loop" at the head of    *)
(* the batch loop, "annotate" at the head of annotate_docx_inline's loop,  *)
(* and "shown" while the stored results are displayed.                     *)
(***************************************************************************)
\* lines 135-136, with nothing uploaded yet
InitRun ==
    /\ pc = "upload"
    /\ pdf_files = 0
    /\ docx_files = <<>>
    /\ results = None
    /\ k = 0
    /\ detected_types = <<>>
    /\ all_issues = <<>>
    /\ reviewed_files = <<>>
    /\ review_json = EmptyDict
    /\ doc = <<>>
    /\ j = 0
    /\ resps = <<>>
    /\ error = "none"

NoCall ==
    /\ text = None
    /\ out = None
    /\ fpc = "none"

Init == InitRun /\ NoCall

\* an exception leaves the script: the handler's locals are gone and
\* nothing was stored; k keeps the document the run stopped at
Abort(kind) ==
    /\ pc' = "upload"
    /\ error' = kind
    /\ detected_types' = <<>>
    /\ all_issues' = <<>>
    /\ reviewed_files' = <<>>
    /\ review_json' = EmptyDict
    /\ doc' = <<>>
    /\ j' = 0
    /\ resps' = <<>>
    /\ UNCHANGED <<pdf_files, docx_files, results, k, funVars>>

\* line 139: the user adds a reference PDF
UploadPdf ==
    /\ pc = "upload"
    /\ pdf_files < MaxPdfs
    /\ pdf_files' = pdf_files + 1
    /\ UNCHANGED <<pc, docx_files, results, k, detected_types, all_issues,
                   reviewed_files, review_json, doc, j, resps, error, funVars>>

\* line 140: the user adds a candidate document
UploadDocx ==
    /\ pc = "upload"
    /\ Len(docx_files) < MaxDocs
    /\ \E d \in Docs : docx_files' = Append(docx_files, d)
    /\ UNCHANGED <<pc, pdf_files, results, k, detected_types, all_issues,
                   reviewed_files, review_json, doc, j, resps, error, funVars>>

\* lines 139-140: the user empties both uploaders
ClearUploads ==
    /\ pc = "upload"
    /\ pdf_files # 0 \/ docx_files # <<>>
    /\ pdf_files' = 0
    /\ docx_files' = <<>>
    /\ UNCHANGED <<pc, results, k, detected_types, all_issues, reviewed_files,
                   review_json, doc, j, resps, error, funVars>>

\* lines 141-143
RunWithoutUploads ==
    /\ pc = "upload"
    /\ pdf_files = 0 \/ docx_files = <<>>
    /\ error' = "MissingUploads"
    /\ UNCHANGED <<pc, pdf_files, docx_files, results, k, detected_types, all_issues,
                   reviewed_files, review_json, doc, j, resps, funVars>>

\* lines 141-152: the index is built, or the embedding service fails
RunReview ==
    /\ pc = "upload"
    /\ pdf_files # 0 /\ docx_files # <<>>
    /\ \E built \in BOOLEAN :
          IF ~built THEN Abort("CollaboratorError") /\ k = 0
          ELSE /\ pc' = "loop"
               /\ k' = 1
               /\ detected_types' = <<>>
               /\ all_issues' = <<>>
               /\ reviewed_files' = <<>>
               /\ resps' = <<>>
               /\ error' = "none"
               /\ UNCHANGED <<pdf_files, docx_files, results, review_json, doc, j,
                              funVars>>

\* lines 155-169 up to the Document(...) of line 110, for document k
ReviewDoc ==
    /\ pc = "loop"
    /\ k <= Len(docx_files)
    /\ LET raw == docx_files[k] IN
       IF ~raw.ok THEN Abort("BadZipFile")
       ELSE \E answered \in BOOLEAN : \E resp \in Responses :
            IF ~answered THEN Abort("CollaboratorError") /\ resp = "No issues found."
            ELSE LET doc_type == classify_document(PyStr(extract_text_from_docx_bytes(raw)))
                     rj == run_rag_review(doc_type, resp)
                     rows == IssueRows(doc_type, rj)
                 IN  IF ~rows.ok THEN Abort(rows.err)
                     ELSE /\ detected_types' = Append(detected_types, doc_type)
                          /\ resps' = Append(resps, resp)
                          /\ review_json' = rj
                          /\ all_issues' = Extend(all_issues, rows.val)
                          /\ doc' = raw.paras
                          /\ j' = 1
                          /\ pc' = "annotate"
                          /\ UNCHANGED <<pdf_files, docx_files, results, k,
                                         reviewed_files, error, funVars>>

\* lines 112-125 for issue j
AnnotateIssue ==
    /\ pc = "annotate"
    /\ j <= Len(IssuesOf(review_json).val)
    /\ LET issue == IssuesOf(review_json).val[j]
           snippet == Snippet(issue)
       IN  IF ~snippet.ok THEN Abort(snippet.err)
           ELSE /\ doc' = PlaceRemark(doc, snippet.val, Comment(issue))
                /\ j' = j + 1
                /\ UNCHANGED <<pc, pdf_files, docx_files, results, k, detected_types,
                               all_issues, reviewed_files, review_json, resps, error,
                               funVars>>

\* a loop that stores what it has after every document
AnnotateReturnStoring ==
    /\ pc = "annotate"
    /\ j > Len(IssuesOf(review_json).val)
    /\ reviewed_files' =
          Append(reviewed_files,
                 <<docx_files[k].name, [docx_files[k] EXCEPT !.paras = doc]>>)
    /\ results' =
          [json |->
              [process |-> "Company Incorporation",
               documents_uploaded |-> k,
               required_documents |-> Len(ADGM_CHECKLISTS),
               missing_document |-> None,
               issues_found |-> all_issues],
           reviewed_files |-> reviewed_files']
    /\ k' = k + 1
    /\ pc' = "loop"
    /\ doc' = <<>>
    /\ j' = 0
    /\ UNCHANGED <<pdf_files, docx_files, detected_types, all_issues,
                   review_json, resps, error, funVars>>

\* lines 126-129 and 170
AnnotateReturn ==
    /\ pc = "annotate"
    /\ j > Len(IssuesOf(review_json).val)
    /\ reviewed_files' =
          Append(reviewed_files,
                 <<docx_files[k].name, [docx_files[k] EXCEPT !.paras = doc]>>)
    /\ k' = k + 1
    /\ pc' = "loop"
    /\ doc' = <<>>
    /\ j' = 0
    /\ UNCHANGED <<pdf_files, docx_files, results, detected_types, all_issues,
                   review_json, resps, error, funVars>>

\* lines 172-185
StoreResults ==
    /\ pc = "loop"
    /\ k > Len(docx_files)
    /\ results' =
          [json |->
              [process |-> "Company Incorporation",
               documents_uploaded |-> Len(docx_files),
               required_documents |-> Len(ADGM_CHECKLISTS),
               missing_document |-> missing_document(ADGM_CHECKLISTS, detected_types),
               issues_found |-> all_issues],
           reviewed_files |-> reviewed_files]
    /\ pc' = "shown"
    /\ UNCHANGED <<pdf_files, docx_files, k, detected_types, all_issues,
                   reviewed_files, review_json, doc, j, resps, error, funVars>>

\* lines 200-202
ReviewNew ==
    /\ pc = "shown"
    /\ results' = None
    /\ pc' = "upload"
    /\ k' = 0
    /\ detected_types' = <<>>
    /\ all_issues' = <<>>
    /\ reviewed_files' = <<>>
    /\ review_json' = EmptyDict
    /\ resps' = <<>>
    /\ UNCHANGED <<pdf_files, docx_files, doc, j, error, funVars>>

Next ==
    \/ UploadPdf
    \/ UploadDocx
    \/ ClearUploads
    \/ RunWithoutUploads
    \/ RunReview
    \/ ReviewDoc
    \/ AnnotateIssue
    \/ AnnotateReturn
    \/ StoreResults
    \/ ReviewNew

Spec == Init /\ [][Next]_vars

(***************************************************************************)
(* _extract_json_from_text on its own: the text is a concatenation of at   *)
(* most MaxFrags fragments                                                 *)
(***************************************************************************)
MaxFrags == 4

JsonFrags ==
    {"{", "}", "\"k\":", "1", "\"}\"", "\"{\"", ",", "x ", "[]", "{\"a\":1}"}

RECURSIVE Concats(_, _)
Concats(frags, n) ==
    IF n = 0 THEN {""}
    ELSE LET shorter == Concats(frags, n - 1)
         IN  shorter \cup {a \o f : a \in shorter, f \in frags}

InitJson ==
    /\ InitRun
    /\ text \in {PyStr(t) : t \in Concats(JsonFrags, MaxFrags)}
    /\ out = None
    /\ fpc = "call"

ExtractJson ==
    /\ fpc = "call"
    /\ out' = _extract_json_from_text(text.s)
    /\ fpc' = "returned"
    /\ UNCHANGED <<text, runVars>>

SpecJson == InitJson /\ [][ExtractJson]_vars

(***************************************************************************)
(* classify_document on its own: the text is None or a concatenation of    *)
(* at most MaxWords fragments                                              *)
(***************************************************************************)
MaxWords == 3

ClassifyFrags ==
    {"Articles of Association", "ARTICLES", "a", "o", "m", "Memorandum",
     "incorporation application", "UBO Declaration", "Register of Directors",
     " form"}

InitClassify ==
    /\ InitRun
    /\ text \in {PyStr(t) : t \in Concats(ClassifyFrags, MaxWords)} \cup {None}
    /\ out = None
    /\ fpc = "call"

Classify ==
    /\ fpc = "call"
    /\ out' = PyStr(classify_document(text))
    /\ fpc' = "returned"
    /\ UNCHANGED <<text, runVars>>

SpecClassify == InitClassify /\ [][Classify]_vars

(***************************************************************************)
(* The end of the batch loop on its own: one document per detected type,   *)
(* at most MaxTyped of them, the reviewer having found nothing in any      *)
(***************************************************************************)
MaxTyped == 5

TypedDocs ==
    {Docx(ADGM_CHECKLISTS[i], TRUE, <<ADGM_CHECKLISTS[i]>>, <<>>) :
        i \in 1..Len(ADGM_CHECKLISTS)}
    \cup {Docx("notes.docx", TRUE, <<"Notes">>, <<>>)}

\* what lines 156-157 make of each of them
TypedAs ==
    [d \in TypedDocs |-> classify_document(PyStr(extract_text_from_docx_bytes(d)))]

InitChecklist ==
    /\ docx_files \in UNION {[1..n -> TypedDocs] : n \in 1..MaxTyped}
    /\ pc = "loop"
    /\ pdf_files = 1
    /\ results = None
    /\ k = Len(docx_files) + 1
    /\ detected_types = [i \in 1..Len(docx_files) |-> TypedAs[docx_files[i]]]
    /\ all_issues = <<>>
    /\ reviewed_files =
          [i \in 1..Len(docx_files) |-> <<docx_files[i].name, docx_files[i]>>]
    /\ review_json = run_rag_review(detected_types[Len(docx_files)], "No issues found.")
    /\ doc = <<>>
    /\ j = 0
    /\ resps = [i \in 1..Len(docx_files) |-> "No issues found."]
    /\ error = "none"
    /\ NoCall

SpecChecklist == InitChecklist /\ [][StoreResults]_vars

(***************************************************************************)
(* Properties                                                              *)
(***************************************************************************)
ShapeErrors == {"TypeError", "AttributeError"}

\* C1: whatever the reviewer answers, run_rag_review, the aggregation of
\* lines 161-167 and annotate_docx_inline complete without raising: no run
\* ends in an exception raised on the shape of the reviewer's JSON.
C1_ReviewerOutputNeverFatal == error \notin ShapeErrors

\* C2 as stated: every value run_rag_review returns has an issues field.
C2_ReturnHasIssues == pc = "annotate" => HasKey(review_json, "issues")

Synthesized(doc_name) ==
    PyDict(<<[k |-> "document", v |-> PyStr(doc_name)],
             [k |-> "issues", v |-> PyList(<<>>)]>>)

\* what _extract_json_from_text makes of each answer the reviewer can give
ParsedAnswer == [r \in Responses |-> _extract_json_from_text(r)]

\* C2 amended: run_rag_review returns the synthesized result
\* {document: doc_name, issues: []} exactly when the mapping parsed from the
\* reviewer's answer is empty; a non-empty mapping is returned as parsed,
\* with an issues field only if the reviewer gave one.
C2_SynthesizedWhenEmpty ==
    pc = "annotate" =>
        LET parsed == ParsedAnswer[resps[k]] IN
        /\ parsed = EmptyDict => review_json = Synthesized(detected_types[k])
        /\ parsed # EmptyDict => review_json = parsed
        /\ HasKey(review_json, "issues") <=>
              (parsed = EmptyDict \/ HasKey(parsed, "issues"))

C2_Witness ==
    /\ pc = "annotate"
    /\ ParsedAnswer[resps[k]] = EmptyDict
    /\ review_json = Synthesized(detected_types[k])

CountOf(s, a, b, c) == Cardinality({h \in a..b : Ch(s, h) = c})

\* the span a..b opens and closes equally many braces and ends in one
Balanced(s, a, b) ==
    /\ Ch(s, b) = "}"
    /\ CountOf(s, a, b, "{") = CountOf(s, a, b, "}")

Least(S) == CHOOSE n \in S : \A m \in S : n <= m

\* C3: _extract_json_from_text returns a mapping for every text: the parse
\* of the first balanced {...} span that starts at the first "{", braces
\* counted literally; the empty mapping when there is no "{", when the
\* braces never balance, or when that one span does not parse.
C3_FirstBalancedSpan ==
    fpc = "returned" =>
        LET s == text.s
            opens == {h \in 1..Len(s) : Ch(s, h) = "{"}
        IN  /\ out.t = "obj"
            /\ IF opens = {} THEN out = EmptyDict
               ELSE LET a == Least(opens)
                        ends == {b \in a..Len(s) : Balanced(s, a, b)}
                    IN  IF ends = {} THEN out = EmptyDict
                        ELSE LET r == json_loads(SubSeq(s, a, Least(ends)))
                             IN  out = IF r.ok THEN r.val ELSE EmptyDict

\* the first span does not parse and a well-formed object follows it
C3_Witness ==
    /\ fpc = "returned"
    /\ out = EmptyDict
    /\ \E i \in 2..Len(text.s) :
          _extract_json_from_text(SubSeq(text.s, i, Len(text.s))) # EmptyDict

\* the labels one of whose keywords occurs in the lower-cased text
Matching(text_l) ==
    {i \in 1..Len(DOC_TYPE_KEYWORDS) :
        \E n \in 1..Len(DOC_TYPE_KEYWORDS[i].keys) :
            Contains(text_l, DOC_TYPE_KEYWORDS[i].keys[n])}

\* C4: classify_document returns the earliest-declared label one of whose
\* keywords occurs in the lower-cased text, and "Unknown Document Type"
\* when no keyword of any label occurs (None and "" included).
C4_FirstDeclaredLabel ==
    fpc = "returned" =>
        LET m == Matching(Lower(IF text.t = "null" THEN "" ELSE text.s)) IN
        out.s = IF m = {} THEN "Unknown Document Type"
                ELSE DOC_TYPE_KEYWORDS[Least(m)].label

\* keywords of several labels occur and the first-declared label wins
C4_Witness ==
    /\ fpc = "returned"
    /\ text.t = "str"
    /\ Cardinality(Matching(Lower(text.s))) >= 2
    /\ out.s = DOC_TYPE_KEYWORDS[Least(Matching(Lower(text.s)))].label

\* the required labels that occur nowhere among the detected types
Absent == {i \in 1..Len(ADGM_CHECKLISTS) : ADGM_CHECKLISTS[i] \notin Range(detected_types)}

\* C5: the report's missing_document is the first required label, in
\* declared order, that is not among the detected types, and null exactly
\* when every required label is among them: a function of the set of
\* detected labels alone.
C5_FirstAbsentRequired ==
    pc = "shown" =>
        /\ Absent = {} => results.json.missing_document = None
        /\ Absent # {} =>
              results.json.missing_document = PyStr(ADGM_CHECKLISTS[Least(Absent)])

\* as many uploads as required types, one type twice, another absent
C5_Witness ==
    /\ pc = "shown"
    /\ Len(detected_types) >= Len(ADGM_CHECKLISTS)
    /\ \E a, b \in 1..Len(detected_types) :
          a # b /\ detected_types[a] = detected_types[b]
    /\ results.json.missing_document # None

\* the snippet of the issue annotate_docx_inline is about to place
SnippetOf(issue) ==
    LET section == Get(issue, "section", PyStr(""))
        descr == Get(issue, "issue", PyStr(""))
    IN  IF section.t = "str" /\ section.s # "" THEN Lower(section.s)
        ELSE Lower(SubSeq(descr.s, 1, IF Len(descr.s) < SnippetLen
                                      THEN Len(descr.s) ELSE SnippetLen))

RemarkOf(issue) ==
    "[Suggestion: " \o Format(Get(issue, "suggestion", PyStr(""))) \o "]"

\* the paragraphs whose lower-cased text contains the snippet
Hits(paras, snippet) ==
    IF snippet = "" THEN {}
    ELSE {p \in 1..Len(paras) : Contains(Lower(paras[p]), snippet)}

Placed == pc = "annotate" /\ pc' = "annotate" /\ j' = j + 1

CurrentIssue == IssuesOf(review_json).val[j]

\* C6: the snippet is the lower-cased section if non-empty, else the
\* lower-cased first 50 characters of issue; when a paragraph contains it,
\* " [Suggestion: <suggestion>]" is appended to the first such paragraph
\* and to it alone.
C6_RemarkOnFirstMatch ==
    [][Placed =>
        LET hits == Hits(doc, SnippetOf(CurrentIssue)) IN
        hits # {} =>
            /\ Len(doc') = Len(doc)
            /\ \A p \in 1..Len(doc) :
                  doc'[p] = IF p = Least(hits)
                            THEN doc[p] \o " " \o RemarkOf(CurrentIssue)
                            ELSE doc[p]]_vars

\* the remark sits on "Section 2: Directors", not on "Section 1: Capital"
C6_Witness ==
    /\ pc = "annotate"
    /\ j = 2
    /\ Len(doc) = Len(docx_files[k].paras)
    /\ \E p \in 1..Len(doc) :
          /\ doc[p] = "Section 2: Directors [Suggestion: Add signature]"
          /\ \A q \in 1..Len(doc) : q # p => doc[q] = docx_files[k].paras[q]

\* C7: when no paragraph contains the snippet, or the snippet is empty, one
\* paragraph holding the remark alone is appended at the end and every
\* paragraph that was there keeps its text.
C7_FallbackAppendsParagraph ==
    [][Placed =>
        LET hits == Hits(doc, SnippetOf(CurrentIssue)) IN
        hits = {} =>
            /\ Len(doc') = Len(doc) + 1
            /\ doc'[Len(doc')] = RemarkOf(CurrentIssue)
            /\ \A p \in 1..Len(doc) : doc'[p] = doc[p]]_vars

\* an issue with an empty snippet went to a trailing paragraph
C7_Witness ==
    /\ pc = "annotate"
    /\ j > 1
    /\ SnippetOf(IssuesOf(review_json).val[j - 1]) = ""
    /\ Len(doc) > Len(docx_files[k].paras)
    /\ doc[Len(doc)] = RemarkOf(IssuesOf(review_json).val[j - 1])
    /\ \A p \in 1..Len(docx_files[k].paras) : doc[p] = docx_files[k].paras[p]

\* the issues the reviewer returned for document d of the run
Returned(d) == IssuesOf(ParsedAnswer[resps[d]]).val

RECURSIVE Before(_)
\* how many issues the reviewer returned for the documents before d
Before(d) == IF d <= 1 THEN 0 ELSE Before(d - 1) + Len(Returned(d - 1))

\* C8: issues_found lists the issues of document 1, then of document 2, ...
\* each document's issues in the order the reviewer returned them, none
\* dropped or repeated; reviewed_files has one entry per document, in
\* upload order.
C8_UploadThenReviewerOrder ==
    pc = "shown" =>
        LET n == Len(docx_files)
            found == results.json.issues_found
        IN  /\ Len(found) = Before(n + 1)
            /\ \A d \in 1..n : \A i \in 1..Len(Returned(d)) :
                  LET row == found[Before(d) + i] IN
                  /\ Get(row, "document", None) = PyStr(detected_types[d])
                  /\ \A f \in {"section", "issue", "severity", "suggestion"} :
                        Get(row, f, None) = Get(Returned(d)[i], f, PyStr(""))
            /\ Len(results.reviewed_files) = n
            /\ \A d \in 1..n : results.reviewed_files[d][1] = docx_files[d].name

\* two documents, each with issues of its own, three or more in all
C8_Witness ==
    /\ pc = "shown"
    /\ Len(docx_files) = 2
    /\ Len(Returned(1)) >= 1
    /\ Len(Returned(2)) >= 2
    /\ Returned(1) # Returned(2)
    /\ docx_files[1] # docx_files[2]

\* C9: the stored results are absent or complete: a report counting all N
\* uploaded documents with N annotated outputs; while a run is under way,
\* after a run that failed, and after a run refused for missing uploads,
\* nothing is stored.
C9_AllOrNothing ==
    /\ results # None =>
          /\ pc = "shown"
          /\ results.json.documents_uploaded = Len(docx_files)
          /\ Len(results.reviewed_files) = Len(docx_files)
    /\ pc # "shown" => results = None
    /\ error # "none" => results = None

\* the run failed at its second document, the first one already annotated
C9_Witness ==
    /\ error \in ShapeErrors \cup {"BadZipFile", "CollaboratorError"}
    /\ k = 2
    /\ pc = "upload"
    /\ results = None

\* C10: every issue lands where it would land were it the only issue
\* annotated on the original document.
C10_IndependentPlacement ==
    (pc = "annotate" /\ j <= Len(IssuesOf(review_json).val) /\ Snippet(CurrentIssue).ok) =>
        ScanParas(doc, Snippet(CurrentIssue).val, 1)
            = ScanParas(docx_files[k].paras, Snippet(CurrentIssue).val, 1)

====
